---- MODULE Spec2Model ----
(***************************************************************************)
(* Model of the Toqua mock ship-performance API (src/api/mock_api.py), of  *)
(* the agent tool that calls it (src/agent/tools.py) and of the session    *)
(* state of the chat app (src/app.py).  Three specifications share the     *)
(* variables: Spec (tool calls), SpecEnv (calculate_environmental_effects  *)
(* called on its own) and SpecApp (chat turns and Clear Chat).             *)
(*                                                                         *)
(* Number representation.  Python floats are modelled as fixed-point       *)
(* integers:                                                               *)
(*   - conditioning parameters: tenths of their unit (6 m/s = 60);         *)
(*   - environmental factors and jitter: ten-thousandths (1.0 = 10000)     *)
(*     and thousandths (1.0 = 1000);                                       *)
(*   - sog and me_rpm before rounding: 10^-6, after round(x, 5): 10^-5;    *)
(*   - me_power, me_fo_consumption, me_fo_emission before rounding: 10^-3, *)
(*     after round(x, 2): 10^-2;                                           *)
(*   - stw samples: tenths of a knot (echoed, never computed with).        *)
(* A value that may be None is <<>> (None) or <<v>> (the number v).        *)
(***************************************************************************)
EXTENDS Integers, Sequences, FiniteSets, TLC

VARIABLES
    pc,                   \* "idle" | "done" | "raised"
    CONDITIONING_PARAMS,  \* module-level default mapping (mock_api.py:29)
    SAMPLE_SHIPS,         \* module-level vessel catalog (mock_api.py:12)
    imo_number,           \* argument of the running call
    cp_passed,            \* conditioning_params as the caller passed it
    cp_arg,               \* the caller's conditioning_params object afterwards
    stw_range,            \* the (resolved) list of speed samples
    conditioning_params,  \* the resolved parameter mapping
    ship,                 \* the vessel profile in use
    i,                    \* number of samples the loop has processed
    results,              \* the result dict being built
    errors,               \* the local errors list
    env_effects,          \* the local env_effects, <<>> while unassigned
    draws,                \* what random.uniform returned, by sample index
    \* a direct call of calculate_environmental_effects (mock_api.py:257)
    env_args,             \* its conditioning_params argument, <<>> before a call
    relative_wind_angle,  \* its local of that name, after the fold
    env_wind_factor,      \* its local wind_factor, after the branches
    relative_current_angle,
    env_return,           \* the dict it returned
    \* st.session_state of the chat app (app.py:27-47)
    agent,                \* "absent" | "ready" | "failed" (None)
    messages,             \* the chat history
    latest_figure,        \* None or the Figure on display
    latest_metadata,      \* None or the metadata shown with it
    latest_performances,  \* None or the performance data shown with it
    turn_graph            \* which graph result the last processed turn
                          \* yielded, None for none (history)

apiVars == <<pc, CONDITIONING_PARAMS, SAMPLE_SHIPS, imo_number, cp_passed,
             cp_arg, stw_range, conditioning_params, ship, i, results, errors,
             env_effects, draws>>

envVars == <<env_args, relative_wind_angle, env_wind_factor,
             relative_current_angle, env_return>>

appVars == <<agent, messages, latest_figure, latest_metadata,
             latest_performances, turn_graph>>

vars == <<apiVars, envVars, appVars>>

-----------------------------------------------------------------------------
(* Optional values and optional arguments *)

None == <<>>
Num(v) == <<v>>
IsNone(x) == x = <<>>
Val(x) == x[1]

NoArg == [given |-> FALSE]
Arg(v) == [given |-> TRUE, val |-> v]

Abs(x) == IF x < 0 THEN -x ELSE x
Max2(a, b) == IF a >= b THEN a ELSE b
MinOf(S) == CHOOSE x \in S : \A y \in S : x <= y

-----------------------------------------------------------------------------
(* Fixed-point arithmetic *)

FOne == 10 * 1000     \* the factor 1.0
JOne == 10 * 100      \* the jitter 1.0

\* floor(a * b / s) without leaving 32-bit range (0 <= a, 0 <= b < 2^31 / s)
MulDiv(a, b, s) == (a \div s) * b + ((a % s) * b) \div s

\* Python round(x, n) on a value held with one more decimal digit than n:
\* round half to even.
RoundHalfEven(x) ==
    LET q == x \div 10
        r == x % 10
    IN IF r > 5 \/ (r = 5 /\ q % 2 = 1) THEN q + 1 ELSE q

Round5(x) == RoundHalfEven(x)    \* 10^-6 -> 10^-5
Round2(x) == RoundHalfEven(x)    \* 10^-3 -> 10^-2

FMul(a, b) == MulDiv(a, b, FOne)
FPow4(x) == FMul(FMul(x, x), FMul(x, x))
FPow5(x) == FMul(FPow4(x), x)

\* largest r in lo..hi with r^5 <= target (bisection)
RECURSIVE FifthRoot(_, _, _)
FifthRoot(lo, hi, target) ==
    IF lo >= hi THEN lo
    ELSE LET mid == (lo + hi + 1) \div 2
         IN IF FPow5(mid) <= target THEN FifthRoot(mid, hi, target)
            ELSE FifthRoot(lo, mid - 1, target)

\* x ** 0.8 for a positive factor x: the r with r^5 = x^4
Pow08(x) == FifthRoot(0, Max2(x, FOne), FPow4(x))

-----------------------------------------------------------------------------
(* Static data of mock_api.py *)

Keys == {"wind_speed", "wind_direction", "wave_height", "wave_direction",
         "current_speed", "current_direction", "mean_draft", "trim",
         "ship_heading", "fuel_specific_energy"}

DefaultParams ==
    [wind_speed |-> Num(60), wind_direction |-> Num(1800),
     wave_height |-> Num(20), wave_direction |-> Num(900),
     current_speed |-> Num(5), current_direction |-> Num(0),
     mean_draft |-> Num(200), trim |-> Num(-10),
     ship_heading |-> Num(0), fuel_specific_energy |-> Num(415)]

\* max_rpm in 10^-6 rpm, mcr in 10^-3 kW
DemoVessel == [name |-> "Demo Vessel", imo_number |-> 9999999,
               mcr |-> 21900000, max_rpm |-> 60000000]

Catalog == <<DemoVessel>>

DefaultStwRange ==
    <<Num(80), Num(90), Num(100), Num(110), Num(120), Num(130), Num(140),
      Num(150), Num(160)>>

\* variant: the sog table carries on into the eighth slot
sog_base_extended ==
    <<Num(7028080), Num(8028080), Num(9028080), Num(10028080), Num(11028080),
      Num(12028080), Num(13028080), Num(14028080), None>>

sog_base ==
    <<Num(7028080), Num(8028080), Num(9028080), Num(10028080), Num(11028080),
      Num(12028080), Num(13028080), None, None>>

me_rpm_base ==
    <<Num(35563477), Num(38868563), Num(42328614), Num(45958934), Num(49772482),
      Num(53780633), Num(57993745), None, None>>

me_power_base ==
    <<Num(4014488), Num(5034966), Num(6306251), Num(7883152), Num(9830679),
      Num(12225665), Num(15158645), None, None>>

me_fo_consumption_base ==
    <<Num(18244), Num(22462), Num(27577), Num(33799), Num(41471), Num(51217),
      Num(64227), None, None>>

me_fo_emission_base ==
    <<Num(57842), Num(71216), Num(87432), Num(107159), Num(131484), Num(162384),
      Num(203631), None, None>>

\* the values random.uniform(lo, hi) is taken to return: both ends of each
\* interval (every computed metric is monotone in its jitter)
SogJitter == {970, 1030}
RpmJitter == {980, 1020}
PowerJitter == {950, 1050}
FuelJitter == {960, 1040}
EmissionJitter == {960, 1040}

-----------------------------------------------------------------------------
(* calculate_environmental_effects *)

\* variant: the angle is not folded
RelativeAngleUnfolded(direction, heading) == Abs(direction - heading)

\* abs(direction - ship_heading), folded at 180 degrees
RelativeAngle(direction, heading) ==
    LET a == Abs(direction - heading)
    IN IF a > 1800 THEN 3600 - a ELSE a

\* variant: wind from abaft the beam (angle > 90) takes the tailwind term
WindFactorAbaftAssists(wind_speed, angle) ==
    IF angle < 900 THEN FOne + (wind_speed * angle) \div 45
    ELSE IF angle > 900 THEN FOne - (wind_speed * (angle - 900)) \div 90
    ELSE FOne

\* 1.0 + (wind_speed * 0.02) * (angle / 90), 1.0 - (wind_speed * 0.01) * ((360 - angle) / 90)
WindFactor(wind_speed, angle) ==
    IF angle < 900 THEN FOne + (wind_speed * angle) \div 45
    ELSE IF angle > 2700 THEN FOne - (wind_speed * (3600 - angle)) \div 90
    ELSE FOne

\* 1.0 + wave_height * 0.03
WaveFactor(wave_height) == FOne + wave_height * 30

\* 1.0 +/- (current_speed * 0.1) * (angle / 90)
CurrentSogFactor(current_speed, angle) ==
    IF angle < 900 THEN FOne + (current_speed * angle) \div 9
    ELSE IF angle > 2700 THEN FOne - (current_speed * (3600 - angle)) \div 9
    ELSE FOne

\* 1.0 + (mean_draft - 20) * 0.01
DraftFactor(mean_draft) == FOne + (mean_draft - 200) * 10

\* 1.0 + abs(trim) * 0.005
TrimFactor(trim) == FOne + Abs(trim) * 5

\* TRUE when an arithmetic operation of the function meets None (TypeError).
\* wave_direction and fuel_specific_energy are never read; wind_speed and
\* current_speed are read only inside the angle < 90 branches.
EnvRaises(p) ==
    \/ IsNone(p.wind_direction) \/ IsNone(p.ship_heading)
    \/ /\ IsNone(p.wind_speed)
       /\ LET a == RelativeAngle(Val(p.wind_direction), Val(p.ship_heading))
          IN a < 900 \/ a > 2700
    \/ IsNone(p.wave_height)
    \/ IsNone(p.current_direction)
    \/ /\ IsNone(p.current_speed)
       /\ LET a == RelativeAngle(Val(p.current_direction), Val(p.ship_heading))
          IN a < 900 \/ a > 2700
    \/ IsNone(p.mean_draft)
    \/ IsNone(p.trim)

\* variant: waves add resistance only when they come from ahead
PowerFactorHeadSeas(p) ==
    LET wind_angle == RelativeAngle(Val(p.wind_direction), Val(p.ship_heading))
        wind_factor == IF wind_angle < 900 \/ wind_angle > 2700
                        THEN WindFactor(Val(p.wind_speed), wind_angle)
                        ELSE FOne
        wave_factor ==
            IF /\ ~IsNone(p.wave_direction)
               /\ RelativeAngle(Val(p.wave_direction),
                                Val(p.ship_heading)) < 900
            THEN WaveFactor(Val(p.wave_height))
            ELSE FOne
    IN FMul(FMul(FMul(wind_factor, wave_factor),
                 DraftFactor(Val(p.mean_draft))),
            TrimFactor(Val(p.trim)))

PowerFactor(p) ==
    LET wind_angle == RelativeAngle(Val(p.wind_direction), Val(p.ship_heading))
        wind_factor == IF wind_angle < 900 \/ wind_angle > 2700
                       THEN WindFactor(Val(p.wind_speed), wind_angle)
                       ELSE FOne
    IN FMul(FMul(FMul(wind_factor, WaveFactor(Val(p.wave_height))),
                 DraftFactor(Val(p.mean_draft))),
            TrimFactor(Val(p.trim)))

SogFactor(p) ==
    LET angle == RelativeAngle(Val(p.current_direction), Val(p.ship_heading))
    IN IF angle < 900 \/ angle > 2700
       THEN CurrentSogFactor(Val(p.current_speed), angle)
       ELSE FOne

\* variant: fuel_factor = power_factor, without the 1.1 overhead
CalculateEnvironmentalEffectsNoOverhead(p) ==
    LET power_factor == PowerFactor(p)
    IN [sog_factor |-> SogFactor(p),
        power_factor |-> power_factor,
        fuel_factor |-> power_factor,
        emission_factor |-> power_factor,
        rpm_factor |-> Pow08(power_factor)]

CalculateEnvironmentalEffects(p) ==
    LET power_factor == PowerFactor(p)
        fuel_factor == (power_factor * 11) \div 10
    IN [sog_factor |-> SogFactor(p),
        power_factor |-> power_factor,
        fuel_factor |-> fuel_factor,
        emission_factor |-> fuel_factor,
        rpm_factor |-> Pow08(power_factor)]

-----------------------------------------------------------------------------
(* query_mock_api: argument resolution *)

\* variant: setdefault semantics, a default wins over the supplied value
MergeDefaultsWin(defaults, given) ==
    [k \in DOMAIN defaults \cup DOMAIN given |->
        IF k \in DOMAIN defaults THEN defaults[k] ELSE given[k]]

\* variant: only the keys of the default mapping are taken over
MergeKnownOnly(defaults, given) ==
    [k \in DOMAIN defaults |->
        IF k \in DOMAIN given THEN given[k] ELSE defaults[k]]

\* params = CONDITIONING_PARAMS.copy(); params.update(conditioning_params)
Merge(defaults, given) ==
    [k \in DOMAIN defaults \cup DOMAIN given |->
        IF k \in DOMAIN given THEN given[k] ELSE defaults[k]]

ResolveParams(defaults, arg) ==
    IF ~arg.given THEN defaults ELSE Merge(defaults, arg.val)

\* variant: params = CONDITIONING_PARAMS without .copy(), so that update
\* writes into the module-level mapping
DefaultsAliased(defaults, arg) ==
    IF ~arg.given THEN defaults ELSE Merge(defaults, arg.val)

\* the module-level mapping after the resolution: only its copy is updated
DefaultsAfterResolve(defaults, arg) == defaults

\* the caller's argument after the resolution: it is read by update, and
\* only the local name conditioning_params is rebound
ArgAfterResolve(defaults, arg) == arg

ResolveStwRange(arg) == IF ~arg.given THEN DefaultStwRange ELSE arg.val

\* variant: an unknown vessel gets an empty profile instead of SAMPLE_SHIPS[0]
FindShipNoFallback(ships, imo) ==
    LET hits == {k \in 1..Len(ships) : ships[k].imo_number = imo}
    IN IF hits # {} THEN ships[MinOf(hits)]
       ELSE [name |-> "unknown", imo_number |-> imo, mcr |-> 0, max_rpm |-> 0]

\* next((s for s in SAMPLE_SHIPS if s["imo_number"] == imo_number), SAMPLE_SHIPS[0])
FindShip(ships, imo) ==
    LET hits == {k \in 1..Len(ships) : ships[k].imo_number = imo}
    IN IF hits # {} THEN ships[MinOf(hits)] ELSE ships[1]

EmptyResults ==
    [sog |-> <<>>, stw |-> <<>>, me_rpm |-> <<>>, me_power |-> <<>>,
     me_fo_consumption |-> <<>>, me_fo_emission |-> <<>>, errors |-> <<>>]

-----------------------------------------------------------------------------
(* query_mock_api: one sample *)

\* i < len(base) and base[i] is not None   (idx is the 0-based index)
HasBase(base, idx) == idx < Len(base) /\ ~IsNone(base[idx + 1])

\* base[i] * factor * variation
Scaled(base, idx, factor, variation) ==
    MulDiv(MulDiv(Val(base[idx + 1]), factor, FOne), variation, JOne)

\* variant: the clip value lies above the limit (1.02 for 0.98)
RpmClipAbove(s) == MulDiv(s.max_rpm, 102, 100)

\* variant: the power check compares with the full mcr
PowerExceededFullMcr(power, s) == power >= s.mcr

RpmLimit(s) == s.max_rpm                    \* ship["max_rpm"]
RpmClip(s) == MulDiv(s.max_rpm, 98, 100)    \* ship["max_rpm"] * 0.98
McrLimit(s) == MulDiv(s.mcr, 9, 10)         \* ship["mcr"] * 0.9

RpmExceeded(rpm, s) == rpm >= RpmLimit(s)
PowerExceeded(power, s) == power >= McrLimit(s)

RpmError(s, idx) ==
    [error_code |-> "max_rpm_limit_exceeded",
     description |-> <<"Maximum RPM exceeded", s.max_rpm>>,
     indices |-> <<idx>>]

McrError(s, idx) ==
    [error_code |-> "max_mcr_limit_exceeded",
     description |-> <<"90% Maximum MCR exceeded", s.mcr>>,
     indices |-> <<idx>>]

SogValue(idx, env, js) ==
    IF HasBase(sog_base, idx)
    THEN Num(Round5(Scaled(sog_base, idx, env.sog_factor, js)))
    ELSE None

RawRpm(idx, env, jr) == Scaled(me_rpm_base, idx, env.rpm_factor, jr)
RawPower(idx, env, jp) == Scaled(me_power_base, idx, env.power_factor, jp)

RpmValue(idx, env, s, jr) ==
    IF HasBase(me_rpm_base, idx)
    THEN LET rpm == RawRpm(idx, env, jr)
         IN Num(Round5(IF RpmExceeded(rpm, s) THEN RpmClip(s) ELSE rpm))
    ELSE None

PowerValue(idx, env, s, jp) ==
    IF HasBase(me_power_base, idx)
    THEN LET power == RawPower(idx, env, jp)
         IN Num(Round2(IF PowerExceeded(power, s) THEN McrLimit(s) ELSE power))
    ELSE None

FuelValue(idx, env, jf) ==
    IF HasBase(me_fo_consumption_base, idx)
    THEN Num(Round2(Scaled(me_fo_consumption_base, idx, env.fuel_factor, jf)))
    ELSE None

EmissionValue(idx, env, je) ==
    IF HasBase(me_fo_emission_base, idx)
    THEN Num(Round2(Scaled(me_fo_emission_base, idx, env.emission_factor, je)))
    ELSE None

\* variant: the power check appends nothing
SampleErrorsRpmOnly(idx, env, s, jr, jp) ==
    IF HasBase(me_rpm_base, idx) /\ RpmExceeded(RawRpm(idx, env, jr), s)
    THEN <<RpmError(s, idx)>> ELSE <<>>

\* the entries one sample appends to errors, RPM check first
SampleErrors(idx, env, s, jr, jp) ==
    (IF HasBase(me_rpm_base, idx) /\ RpmExceeded(RawRpm(idx, env, jr), s)
     THEN <<RpmError(s, idx)>> ELSE <<>>)
    \o
    (IF HasBase(me_power_base, idx) /\ PowerExceeded(RawPower(idx, env, jp), s)
     THEN <<McrError(s, idx)>> ELSE <<>>)

\* variant: a None sample is skipped without appending anything
AppendRowSkipNone(res, sog, stw, rpm, power, fuel, emission) ==
    IF IsNone(stw) THEN res
    ELSE [res EXCEPT !.sog = Append(@, sog),
                     !.stw = Append(@, stw),
                     !.me_rpm = Append(@, rpm),
                     !.me_power = Append(@, power),
                     !.me_fo_consumption = Append(@, fuel),
                     !.me_fo_emission = Append(@, emission)]

AppendRow(res, sog, stw, rpm, power, fuel, emission) ==
    [res EXCEPT !.sog = Append(@, sog),
                !.stw = Append(@, stw),
                !.me_rpm = Append(@, rpm),
                !.me_power = Append(@, power),
                !.me_fo_consumption = Append(@, fuel),
                !.me_fo_emission = Append(@, emission)]


\* the five random.uniform draws of one sample
JitterDraws ==
    [sog : SogJitter, rpm : RpmJitter, power : PowerJitter,
     fuel : FuelJitter, emission : EmissionJitter]

\* the 0-based indices at which the loop draws random numbers
DrawIndices(stw) ==
    {idx \in 0..(Len(stw) - 1) :
        /\ ~IsNone(stw[idx + 1])
        /\ \/ HasBase(sog_base, idx) \/ HasBase(me_rpm_base, idx)
           \/ HasBase(me_power_base, idx)
           \/ HasBase(me_fo_consumption_base, idx)
           \/ HasBase(me_fo_emission_base, idx)}

NoDraw == [sog |-> JOne, rpm |-> JOne, power |-> JOne, fuel |-> JOne,
           emission |-> JOne]

DrawAt(jit, idx) == IF idx \in DOMAIN jit THEN jit[idx] ELSE NoDraw

\* env_effects = calculate_environmental_effects(conditioning_params), or
\* the TypeError it raises.  The function is pure and the loop never
\* reassigns conditioning_params, so every iteration gets this same outcome.
EnvOutcome(params) ==
    IF EnvRaises(params) THEN [raises |-> TRUE]
    ELSE [raises |-> FALSE, factors |-> CalculateEnvironmentalEffects(params)]

\* variant: sog is the requested speed scaled, not the base table entry
LoopBodySogFromStw(st, stw, outcome, s, j) ==
    IF IsNone(stw)
    THEN [st EXCEPT !.results = AppendRow(@, None, None, None, None, None, None),
                    !.i = @ + 1]
    ELSE IF outcome.raises
    THEN [st EXCEPT !.raised = TRUE]
    ELSE LET env == outcome.factors
             idx == st.i
             sog == MulDiv(MulDiv(Val(stw) * 100000, env.sog_factor, FOne),
                           j.sog, JOne)
         IN [st EXCEPT
               !.env_effects = env,
               !.results = AppendRow(@, Num(Round5(sog)),
                                     stw,
                                     RpmValue(idx, env, s, j.rpm),
                                     PowerValue(idx, env, s, j.power),
                                     FuelValue(idx, env, j.fuel),
                                     EmissionValue(idx, env, j.emission)),
               !.errors = @ \o SampleErrors(idx, env, s, j.rpm, j.power),
               !.i = @ + 1]

\* variant: the newest entries are put in front of errors
LoopBodyErrorsInFront(st, stw, outcome, s, j) ==
    IF IsNone(stw)
    THEN [st EXCEPT !.results = AppendRow(@, None, None, None, None, None, None),
                    !.i = @ + 1]
    ELSE IF outcome.raises
    THEN [st EXCEPT !.raised = TRUE]
    ELSE LET env == outcome.factors
             idx == st.i
         IN [st EXCEPT
               !.env_effects = env,
               !.results = AppendRow(@, SogValue(idx, env, j.sog),
                                     stw,
                                     RpmValue(idx, env, s, j.rpm),
                                     PowerValue(idx, env, s, j.power),
                                     FuelValue(idx, env, j.fuel),
                                     EmissionValue(idx, env, j.emission)),
               !.errors = SampleErrors(idx, env, s, j.rpm, j.power) \o @,
               !.i = @ + 1]

\* one iteration of "for i, stw in enumerate(stw_range)" on the loop state
\* st = [raised, i, results, errors, env_effects]; outcome is the outcome of
\* this iteration's calculate_environmental_effects call
\* (mock_api.py:146-251)
LoopBody(st, stw, outcome, s, j) ==
    IF IsNone(stw)
    THEN [st EXCEPT !.results = AppendRow(@, None, None, None, None, None, None),
                    !.i = @ + 1]
    ELSE IF outcome.raises
    THEN [st EXCEPT !.raised = TRUE]
    ELSE LET env == outcome.factors
             idx == st.i
         IN [st EXCEPT
               !.env_effects = env,
               !.results = AppendRow(@, SogValue(idx, env, j.sog),
                                     stw,
                                     RpmValue(idx, env, s, j.rpm),
                                     PowerValue(idx, env, s, j.power),
                                     FuelValue(idx, env, j.fuel),
                                     EmissionValue(idx, env, j.emission)),
               !.errors = @ \o SampleErrors(idx, env, s, j.rpm, j.power),
               !.i = @ + 1]

RECURSIVE Loop(_, _, _, _, _)
Loop(st, stw, env, s, jit) ==
    IF st.raised \/ st.i >= Len(stw) THEN st
    ELSE Loop(LoopBody(st, stw[st.i + 1], env, s, DrawAt(jit, st.i)),
              stw, env, s, jit)

\* the loop, then results["errors"] = errors (mock_api.py:144-254)
RunQuery(stw, env, s, jit) ==
    LET st == Loop([raised |-> FALSE, i |-> 0, results |-> EmptyResults,
                    errors |-> <<>>, env_effects |-> <<>>], stw, env, s, jit)
    IN IF st.raised THEN st
       ELSE [st EXCEPT !.results = [st.results EXCEPT !.errors = st.errors]]

-----------------------------------------------------------------------------
(* Bounds and the requests the caller may make *)

MaxLen == 10          \* longest stw_range
MaxDense == 2         \* longest stw_range without a None
MaxOverrides == 1     \* most keys in a caller-supplied mapping

UnknownKey == "sea_state"
AllKeys == Keys \cup {UnknownKey}

OverrideValues ==
    [wind_speed |-> {None, Num(100)},
     wind_direction |-> {None, Num(450)},
     wave_height |-> {None, Num(100), Num(150)},
     wave_direction |-> {None, Num(0)},
     current_speed |-> {None, Num(10)},
     current_direction |-> {None, Num(450)},
     mean_draft |-> {None, Num(250)},
     trim |-> {None, Num(0)},
     ship_heading |-> {None, Num(1350)},
     fuel_specific_energy |-> {None, Num(420)},
     sea_state |-> {None, Num(30)}]

Overrides ==
    UNION {{f \in [K -> UNION {OverrideValues[k] : k \in K}] :
               \A k \in K : f[k] \in OverrideValues[k]} :
           K \in {S \in SUBSET AllKeys : Cardinality(S) <= MaxOverrides}}

Imos == {9999999, 1234567}

\* the speed asked for at position k: 8.0, 9.0, ... knots
GridSpeed(k) == Num(70 + 10 * k)

\* ranges of length up to MaxLen that are all None, or None but for a single
\* numeric sample at position m
SparseRanges ==
    {[k \in 1..n |-> IF k = m THEN GridSpeed(k) ELSE None] :
        n \in 0..MaxLen, m \in 0..MaxLen}

\* a single numeric sample at the end of a run of None
SingleSampleRanges ==
    {[k \in 1..n |-> IF k = n THEN GridSpeed(k) ELSE None] : n \in 1..MaxLen}

\* [8.0], [8.0, 9.0], ...  (the default stw_range is the one of length 9)
DenseRanges == {[k \in 1..n |-> GridSpeed(k)] : n \in 1..MaxDense}

\* None up to index 4, then 13.0, 14.0, ...: the samples at the top of the
\* base tables, where the limits are within reach
TopRanges ==
    {[k \in 1..(5 + n) |-> IF k > 5 THEN GridSpeed(k) ELSE None] :
        n \in 1..MaxDense}

\* conditioning_params={"wave_height": 15.0}
HeavySeas == [wave_height |-> Num(150)]

\* stw_range=[8.0, 9.0]
ScenarioStw == <<GridSpeed(1), GridSpeed(2)>>

Requests ==
    {[imo |-> m, stw |-> Arg(s), cp |-> NoArg] :
        m \in Imos, s \in SparseRanges \cup DenseRanges}
    \cup
    {[imo |-> m, stw |-> Arg(s), cp |-> a] :
        m \in Imos, s \in SingleSampleRanges,
        a \in {Arg(o) : o \in Overrides}}
    \cup
    {[imo |-> m, stw |-> Arg(s), cp |-> a] :
        m \in Imos, s \in TopRanges, a \in {NoArg, Arg(HeavySeas)}}

-----------------------------------------------------------------------------
(* The state machine *)

Init ==
    /\ pc = "idle"
    /\ CONDITIONING_PARAMS = DefaultParams
    /\ SAMPLE_SHIPS = Catalog
    /\ imo_number = None
    /\ cp_passed = NoArg
    /\ cp_arg = NoArg
    /\ stw_range = <<>>
    /\ conditioning_params = <<>>
    /\ ship = <<>>
    /\ i = 0
    /\ results = EmptyResults
    /\ errors = <<>>
    /\ env_effects = <<>>
    /\ draws = <<>>
    /\ env_args = <<>>
    /\ relative_wind_angle = None
    /\ env_wind_factor = None
    /\ relative_current_angle = None
    /\ env_return = <<>>
    /\ agent = "absent"
    /\ messages = <<>>
    /\ latest_figure = None
    /\ latest_metadata = None
    /\ latest_performances = None
    /\ turn_graph = None

\* get_ship_performance_data calls query_mock_api(imo, stw_range,
\* conditioning_params), which runs to its return or to an exception
\* (tools.py:70-72, mock_api.py:53-254)
Call ==
    /\ pc = "idle"
    /\ \E req \in Requests :
        LET stw == ResolveStwRange(req.stw)
            params == ResolveParams(CONDITIONING_PARAMS, req.cp)
            s == FindShip(SAMPLE_SHIPS, req.imo)
        IN \E env \in {EnvOutcome(params)} :
           \E jit \in [DrawIndices(stw) -> JitterDraws] :
           \E st \in {RunQuery(stw, env, s, jit)} :
               /\ imo_number' = Num(req.imo)
               /\ cp_passed' = req.cp
               /\ cp_arg' = ArgAfterResolve(CONDITIONING_PARAMS, req.cp)
               /\ CONDITIONING_PARAMS' =
                      DefaultsAfterResolve(CONDITIONING_PARAMS, req.cp)
               /\ stw_range' = stw
               /\ conditioning_params' = params
               /\ ship' = s
               /\ i' = st.i
               /\ results' = st.results
               /\ errors' = st.errors
               /\ env_effects' = st.env_effects
               /\ draws' = IF st.raised THEN <<>> ELSE jit
               /\ pc' = IF st.raised THEN "raised" ELSE "done"
    /\ UNCHANGED <<SAMPLE_SHIPS, envVars, appVars>>

\* get_ship_performance_data returns {"status": "success", ...}
\* (tools.py:74-83)
ToolSuccess ==
    /\ pc = "done"
    /\ pc' = "idle"
    /\ imo_number' = None
    /\ cp_passed' = NoArg
    /\ cp_arg' = NoArg
    /\ stw_range' = <<>>
    /\ conditioning_params' = <<>>
    /\ ship' = <<>>
    /\ i' = 0
    /\ results' = EmptyResults
    /\ errors' = <<>>
    /\ env_effects' = <<>>
    /\ draws' = <<>>
    /\ UNCHANGED <<CONDITIONING_PARAMS, SAMPLE_SHIPS, envVars, appVars>>

\* get_ship_performance_data catches the exception and returns
\* {"status": "error", ...} (tools.py:85-86)
ToolError ==
    /\ pc = "raised"
    /\ pc' = "idle"
    /\ imo_number' = None
    /\ cp_passed' = NoArg
    /\ cp_arg' = NoArg
    /\ stw_range' = <<>>
    /\ conditioning_params' = <<>>
    /\ ship' = <<>>
    /\ i' = 0
    /\ results' = EmptyResults
    /\ errors' = <<>>
    /\ env_effects' = <<>>
    /\ draws' = <<>>
    /\ UNCHANGED <<CONDITIONING_PARAMS, SAMPLE_SHIPS, envVars, appVars>>

Next ==
    \/ Call
    \/ ToolSuccess
    \/ ToolError

Spec == Init /\ [][Next]_vars

-----------------------------------------------------------------------------
(* calculate_environmental_effects called on its own.  The resolver checks
   no range, so directions beyond [0, 360] degrees reach the function. *)

MaxWraps == 2         \* directions reach this many full turns either way

\* -360 * MaxWraps, ..., 360 * MaxWraps degrees in steps of 45, in tenths
Directions == {450 * k : k \in (-8 * MaxWraps)..(8 * MaxWraps)}

Headings == {0, 1350, 3600}

\* -2, 0 and 2 m/s
WindSpeeds == {-20, 0, 20}

\* -0.5 and 0.5 knots
CurrentSpeeds == {-5, 5}

\* other values of the two parameters the function never reads
WaveDirections == {None, Num(0)}

FuelEnergies == {None, Num(420)}

\* other values of the parameters that current_sog_factor is not computed from
OtherWeather ==
    [wind_speed |-> Num(100), wind_direction |-> Num(450),
     wave_height |-> Num(50), mean_draft |-> Num(250), trim |-> Num(0)]

EnvInputs ==
    {[DefaultParams EXCEPT !.wind_speed = Num(ws),
                           !.wind_direction = Num(wd),
                           !.ship_heading = Num(sh),
                           !.current_speed = Num(cs),
                           !.current_direction = Num(cd)] :
        ws \in WindSpeeds, wd \in Directions, sh \in Headings,
        cs \in CurrentSpeeds, cd \in Directions}

\* calculate_environmental_effects(p) runs to its return
\* (mock_api.py:257-329)
EnvCall ==
    /\ env_args = <<>>
    /\ \E p \in EnvInputs :
        \E wa \in {RelativeAngle(Val(p.wind_direction), Val(p.ship_heading))} :
        \E ca \in {RelativeAngle(Val(p.current_direction),
                                  Val(p.ship_heading))} :
            /\ env_args' = p
            /\ relative_wind_angle' = Num(wa)
            /\ env_wind_factor' = Num(WindFactor(Val(p.wind_speed), wa))
            /\ relative_current_angle' = Num(ca)
            /\ env_return' = CalculateEnvironmentalEffects(p)
    /\ UNCHANGED <<apiVars, appVars>>

\* the caller is done with the returned dict; the frame is gone
EnvDone ==
    /\ env_args /= <<>>
    /\ env_args' = <<>>
    /\ relative_wind_angle' = None
    /\ env_wind_factor' = None
    /\ relative_current_angle' = None
    /\ env_return' = <<>>
    /\ UNCHANGED <<apiVars, appVars>>

EnvNext ==
    \/ EnvCall
    \/ EnvDone

SpecEnv == Init /\ [][EnvNext]_vars

-----------------------------------------------------------------------------
(* The chat app (src/app.py): session state, chat turns, Clear Chat.
   A tool result is named by a number; the figure JSON and the metadata of
   graph result g are Num(g), and the Figure parsed from that JSON is
   <<g, "Figure">>. *)

MaxTurns == 3         \* chat turns before the next Clear Chat
MaxToolMessages == 2  \* tool messages in one agent result

GraphIds == {1, 2}

\* json.loads(msg.content) of a tool message: has_data is whether the dict
\* has a "data" key; the other fields are tool_content["data"].get(...)
\* get_ship_performance_data, success (tools.py:74-83)
PerformanceResult ==
    [has_data |-> TRUE, performance_data |-> Num(1), figure |-> None,
     metadata |-> None]

\* display_performance_graph, success (tools.py:119-125)
GraphResult(g) ==
    [has_data |-> TRUE, performance_data |-> None, figure |-> Num(g),
     metadata |-> Num(g)]

\* list_available_ships (tools.py:147)
ShipsResult ==
    [has_data |-> TRUE, performance_data |-> None, figure |-> None,
     metadata |-> None]

\* {"status": "error", "message": ...} (tools.py:86, 127, 130)
ErrorResult ==
    [has_data |-> FALSE, performance_data |-> None, figure |-> None,
     metadata |-> None]

ToolResults ==
    {PerformanceResult, ShipsResult, ErrorResult}
        \cup {GraphResult(g) : g \in GraphIds}

\* what agent.invoke does: it raises, or it returns messages of which
\* tools are the ones of type "tool" and the last one is of type "ai" or not
AgentResults ==
    {[raises |-> TRUE, tools |-> <<>>, final_ai |-> FALSE]}
    \cup
    {[raises |-> FALSE, tools |-> t, final_ai |-> b] :
        t \in UNION {[1..n -> ToolResults] : n \in 0..MaxToolMessages},
        b \in BOOLEAN}

\* pio.from_json(figure_data)
FromJson(figure_data) == <<Val(figure_data), "Figure">>

\* Python truthiness of None / a Figure / a non-empty dict or string
Truthy(v) == v /= None

\* the body of "if msg.type == 'tool':" on the turn's locals (app.py:123-142)
HandleToolMessage(loc, tool_content) ==
    IF ~tool_content.has_data
    THEN [loc EXCEPT !.raised = TRUE]          \* KeyError: 'data'
    ELSE LET performance_data == tool_content.performance_data
             figure_data == tool_content.figure
             loc1 == IF Truthy(performance_data)
                     THEN [loc EXCEPT !.latest_performances = performance_data]
                     ELSE loc
         IN \* a JSON string never equals the Figure in the session state
            IF Truthy(figure_data) /\ figure_data /= latest_figure
            THEN [loc1 EXCEPT !.latest_figure = FromJson(figure_data),
                              !.latest_metadata = tool_content.metadata]
            ELSE loc1

\* "for msg in result['messages']", stopped by the first exception
RECURSIVE HandleToolMessages(_, _, _)
HandleToolMessages(loc, tools, k) ==
    IF loc.raised \/ k > Len(tools) THEN loc
    ELSE HandleToolMessages(HandleToolMessage(loc, tools[k]), tools, k + 1)

\* the try block of a chat turn (app.py:113-154): the locals after it, and
\* whether ai_msg is the agent's reply or an "Error: ..." message
RunTurn(result) ==
    LET loc0 == [raised |-> result.raises,
                 latest_figure |-> latest_figure,
                 latest_metadata |-> latest_metadata,
                 latest_performances |-> latest_performances]
        loc == IF result.raises THEN loc0
               ELSE HandleToolMessages(loc0, result.tools, 1)
    IN [loc |-> loc,
        ai_msg |-> [type |-> "ai",
                    content |-> IF loc.raised \/ ~result.final_ai
                                THEN "Error" ELSE "reply"]]

HumanMessage == [type |-> "human", content |-> "user_input"]

\* the graph result whose figure and metadata the handled tool messages of
\* a result yield last, None when they yield none
YieldedGraph(result) ==
    LET handled ==
            {k \in 1..Len(result.tools) :
                \A j \in 1..k : result.tools[j].has_data}
        graphs ==
            {k \in handled : /\ Truthy(result.tools[k].figure)
                             /\ Truthy(result.tools[k].metadata)}
    IN IF result.raises \/ graphs = {} THEN None
       ELSE result.tools[CHOOSE k \in graphs : \A j \in graphs : j <= k].metadata

\* ToquaShipAgent(...) succeeds, or raises and agent is None (app.py:40-47)
AgentInit ==
    /\ agent = "absent"
    /\ agent' \in {"ready", "failed"}
    /\ UNCHANGED <<messages, latest_figure, latest_metadata,
                   latest_performances, turn_graph>>
    /\ UNCHANGED <<apiVars, envVars>>

\* variant: Clear Chat leaves latest_metadata as it is
ClearChatKeepsMetadata ==
    /\ agent /= "absent"
    /\ messages' = <<>>
    /\ latest_figure' = None
    /\ latest_performances' = None
    /\ UNCHANGED <<agent, latest_metadata, turn_graph>>
    /\ UNCHANGED <<apiVars, envVars>>

\* the Clear Chat button (app.py:52-57)
ClearChat ==
    /\ agent /= "absent"
    /\ messages' = <<>>
    /\ latest_figure' = None
    /\ latest_metadata' = None
    /\ latest_performances' = None
    /\ UNCHANGED <<agent, turn_graph>>
    /\ UNCHANGED <<apiVars, envVars>>

\* a chat input with an agent (app.py:104-166)
ChatTurn ==
    /\ agent = "ready"
    /\ Len(messages) < 2 * MaxTurns
    /\ \E result \in AgentResults :
       \E turn \in {RunTurn(result)} :
           /\ messages' = Append(Append(messages, HumanMessage), turn.ai_msg)
           /\ IF Truthy(turn.loc.latest_figure)
                 /\ Truthy(turn.loc.latest_metadata)
              THEN /\ latest_figure' = turn.loc.latest_figure
                   /\ latest_metadata' = turn.loc.latest_metadata
              ELSE UNCHANGED <<latest_figure, latest_metadata>>
           /\ IF Truthy(turn.loc.latest_performances)
              THEN latest_performances' = turn.loc.latest_performances
              ELSE UNCHANGED latest_performances
           /\ turn_graph' = YieldedGraph(result)
    /\ UNCHANGED agent
    /\ UNCHANGED <<apiVars, envVars>>

\* a chat input without an agent: an error is shown (app.py:168-169)
ChatWithoutAgent ==
    /\ agent = "failed"
    /\ UNCHANGED vars

AppNext ==
    \/ AgentInit
    \/ ClearChat
    \/ ChatTurn
    \/ ChatWithoutAgent

SpecApp == Init /\ [][AppNext]_vars

-----------------------------------------------------------------------------
(* Properties *)

Returned == pc = "done"
Called == pc \in {"done", "raised"}

Derived == {"sog", "me_rpm", "me_power", "me_fo_consumption", "me_fo_emission"}
Series == Derived \cup {"stw"}

\* the returned errors list has an entry with this code for 0-based index idx
HasError(code, idx) ==
    \E e \in 1..Len(results.errors) :
        /\ results.errors[e].error_code = code
        /\ results.errors[e].indices = <<idx>>

SomeFieldNone == \E k \in Keys : IsNone(conditioning_params[k])

\* the value base[idx] * factor before jitter and clipping
UnjitteredRpm(idx) == RawRpm(idx, env_effects, JOne)
UnjitteredPower(idx) == RawPower(idx, env_effects, JOne)

\* the value base[idx] * factor * jitter with the jitter the call drew
JitteredRpm(idx) == RawRpm(idx, env_effects, draws[idx].rpm)
JitteredPower(idx) == RawPower(idx, env_effects, draws[idx].power)

\* C1: for an stw_range of length at most 9, the six returned series have
\* exactly the length of stw_range, and wherever the input sample is None all
\* six series hold None.
C1_ShapePreserved ==
    (Returned /\ Len(stw_range) <= 9) =>
        /\ \A m \in Series : Len(results[m]) = Len(stw_range)
        /\ \A k \in 1..Len(stw_range) :
              IsNone(stw_range[k]) => \A m \in Series : IsNone(results[m][k])

C1_Witness ==
    /\ Returned
    /\ Len(stw_range) = 9
    /\ IsNone(stw_range[1])
    /\ ~IsNone(stw_range[4])
    /\ IsNone(results.me_rpm[1])
    /\ ~IsNone(results.me_rpm[4])

\* C2 as stated: every non-null me_rpm returned is at most max_rpm * 0.98
\* (up to rounding).
C2_RpmAtMostClip ==
    Returned =>
        \A k \in 1..Len(results.me_rpm) :
            ~IsNone(results.me_rpm[k]) =>
                Val(results.me_rpm[k])
                    <= RoundHalfEven((ship.max_rpm \div 100) * 98)

\* C2 amended: every non-null me_rpm returned is at most max_rpm (up to
\* rounding): a value below max_rpm is returned as computed, also when it is
\* above max_rpm * 0.98, and a value at or above max_rpm comes back as
\* max_rpm * 0.98.
C2_RpmAtMostMax ==
    Returned =>
        \A k \in 1..Len(results.me_rpm) :
            ~IsNone(results.me_rpm[k]) =>
                Val(results.me_rpm[k]) <= RoundHalfEven(ship.max_rpm)

\* a returned rpm lies between the clip value and the limit, unclipped
C2_Witness ==
    /\ Returned
    /\ \E k \in 1..Len(results.me_rpm) :
          /\ ~IsNone(results.me_rpm[k])
          /\ ~HasError("max_rpm_limit_exceeded", k - 1)
          /\ Val(results.me_rpm[k]) > RoundHalfEven((ship.max_rpm \div 100) * 98)
          /\ Val(results.me_rpm[k]) = RoundHalfEven(JitteredRpm(k - 1))

\* C3: every non-null me_power returned is at most mcr * 0.9 (up to
\* rounding).
C3_PowerAtMostLimit ==
    Returned =>
        \A k \in 1..Len(results.me_power) :
            ~IsNone(results.me_power[k]) =>
                Val(results.me_power[k])
                    <= RoundHalfEven((ship.mcr \div 10) * 9)

C3_Witness ==
    /\ Returned
    /\ \E k \in 1..Len(results.me_power) :
          /\ ~IsNone(results.me_power[k])
          /\ HasError("max_mcr_limit_exceeded", k - 1)
          /\ Val(results.me_power[k]) = RoundHalfEven((ship.mcr \div 10) * 9)

\* C4 as stated: whenever base[i] * factor, before jitter and clipping,
\* exceeds max_rpm (resp. mcr * 0.9) at a non-null sample index i, the
\* returned errors list has the matching entry naming i.
C4_RawExceedsGivesError ==
    Returned =>
        \A idx \in DOMAIN draws :
            /\ (HasBase(me_rpm_base, idx) /\ UnjitteredRpm(idx) > ship.max_rpm)
                   => HasError("max_rpm_limit_exceeded", idx)
            /\ (HasBase(me_power_base, idx)
                    /\ UnjitteredPower(idx) > (ship.mcr \div 10) * 9)
                   => HasError("max_mcr_limit_exceeded", idx)

\* C4 amended: whenever the jittered value base[i] * factor * jitter reaches
\* max_rpm (resp. mcr * 0.9) at a non-null sample index i, the returned
\* errors list has the matching entry naming i; a raw value above the
\* threshold whose jittered value stays below it gives no entry.
C4_JitteredReachesGivesError ==
    Returned =>
        \A idx \in DOMAIN draws :
            /\ (HasBase(me_rpm_base, idx) /\ JitteredRpm(idx) >= ship.max_rpm)
                   => HasError("max_rpm_limit_exceeded", idx)
            /\ (HasBase(me_power_base, idx)
                    /\ JitteredPower(idx) >= (ship.mcr \div 10) * 9)
                   => HasError("max_mcr_limit_exceeded", idx)

\* both limits are reached at one index and both entries are returned
C4_Witness ==
    /\ Returned
    /\ \E idx \in DOMAIN draws :
          /\ JitteredRpm(idx) >= ship.max_rpm
          /\ JitteredPower(idx) >= (ship.mcr \div 10) * 9
          /\ HasError("max_rpm_limit_exceeded", idx)
          /\ HasError("max_mcr_limit_exceeded", idx)

\* the caller's mapping, empty when the argument is None
Supplied == IF cp_arg.given THEN cp_arg.val ELSE <<>>

\* C5: for a caller-supplied mapping over a subset of the ten recognised
\* keys (None and the empty mapping included), the resolved parameter set is
\* the canonical default mapping with exactly the supplied keys replaced by
\* the supplied values.
C5_ResolvedParams ==
    (Called /\ DOMAIN Supplied \subseteq Keys) =>
        /\ DOMAIN conditioning_params = Keys
        /\ \A k \in Keys :
              conditioning_params[k] =
                  IF k \in DOMAIN Supplied THEN Supplied[k] ELSE DefaultParams[k]

C5_Witness ==
    /\ Returned
    /\ DOMAIN Supplied = {"wind_speed"}
    /\ conditioning_params.wind_speed = Num(100)
    /\ conditioning_params.wave_height = Num(20)

\* C6 as stated: a supplied key that is not one of the ten recognised names
\* is not merged: the resolved parameter set keeps exactly the ten keys.
C6_UnknownKeyNotMerged ==
    (Called /\ ~(DOMAIN Supplied \subseteq Keys)) =>
        DOMAIN conditioning_params = Keys

\* C6 amended: a supplied key that is not one of the ten recognised names is
\* merged into the resolved parameter set with its supplied value, next to
\* the ten recognised keys (which hold the supplied or default values); no
\* error is raised on its account: the call raises only when a recognised
\* field is None.
C6_UnknownKeyMerged ==
    (Called /\ ~(DOMAIN Supplied \subseteq Keys)) =>
        /\ DOMAIN conditioning_params = Keys \cup DOMAIN Supplied
        /\ \A k \in DOMAIN Supplied : conditioning_params[k] = Supplied[k]
        /\ \A k \in Keys \ DOMAIN Supplied :
              conditioning_params[k] = DefaultParams[k]
        /\ pc = "raised" => SomeFieldNone

C6_Witness ==
    /\ Returned
    /\ UnknownKey \in DOMAIN Supplied
    /\ UnknownKey \in DOMAIN conditioning_params
    /\ Len(results.me_rpm) > 0
    /\ ~IsNone(results.me_rpm[Len(results.me_rpm)])

\* C7: after parameter resolution every one of the ten conditioning fields
\* holds a value: a field the caller passes None for keeps its default.
C7_NoFieldUnset ==
    Called => \A k \in Keys : ~IsNone(conditioning_params[k])

\* C8: for any imo_number the lookup does not raise and the output keeps its
\* shape; the limits are those of the matching catalog entry, and those of
\* the first catalog entry when no entry matches.
C8_ShipFallback ==
    Called =>
        LET hits == {k \in 1..Len(SAMPLE_SHIPS) :
                        SAMPLE_SHIPS[k].imo_number = Val(imo_number)}
        IN /\ hits = {} => ship = SAMPLE_SHIPS[1]
           /\ hits # {} => /\ ship.imo_number = Val(imo_number)
                           /\ \E k \in hits : ship = SAMPLE_SHIPS[k]
           /\ pc = "raised" => SomeFieldNone
           /\ Returned => \A m \in Series : Len(results[m]) = Len(stw_range)

C8_Witness ==
    /\ Returned
    /\ \A k \in 1..Len(SAMPLE_SHIPS) :
          SAMPLE_SHIPS[k].imo_number # Val(imo_number)
    /\ ship.max_rpm = DemoVessel.max_rpm
    /\ HasError("max_rpm_limit_exceeded", 6)

\* C9: at an index beyond the 9-slot base table (index >= 9) or whose slot
\* is None (indices 7 and 8) the five derived metrics are None also for a
\* numeric sample, without an error entry; at every index the five derived
\* metrics are all None or all not None.
C9_NoBaseNoData ==
    Returned =>
        \A k \in 1..Len(stw_range) :
            /\ k - 1 >= 7 =>
                  /\ \A m \in Derived : IsNone(results[m][k])
                  /\ results.stw[k] = stw_range[k]
                  /\ \A e \in 1..Len(results.errors) :
                        results.errors[e].indices # <<k - 1>>
            /\ \/ \A m \in Derived : IsNone(results[m][k])
               \/ \A m \in Derived : ~IsNone(results[m][k])

C9_Witness ==
    /\ Returned
    /\ Len(stw_range) = 10
    /\ ~IsNone(stw_range[10])
    /\ ~IsNone(results.stw[10])
    /\ IsNone(results.me_fo_consumption[10])

Scenario ==
    /\ Returned
    /\ stw_range = ScenarioStw
    /\ ~cp_arg.given
    /\ ship.max_rpm = 60000000
    /\ ship.mcr = 21900000

\* C10 as stated: stw_range=[8.0, 9.0], default parameters, the vessel with
\* max_rpm=60 and mcr=21900: 2-length series, stw[0] == 8.0,
\* me_fo_consumption[0] within 4% of 18.24 (17.51 to 18.97), no errors.
C10_ScenarioNearBase ==
    Scenario =>
        /\ \A m \in Series : Len(results[m]) = 2
        /\ results.stw[1] = Num(80)
        /\ Val(results.me_fo_consumption[1]) \in 1751..1897
        /\ results.errors = <<>>

\* C10 amended: in that scenario me_fo_consumption[0] is within 4% of
\* 18.24 * fuel_factor, where the default parameters give fuel_factor =
\* 1.06 * 1.005 * 1.1 = 1.17183: within 4% of 21.38 (20.52 to 22.23); the
\* series have length 2, stw[0] == 8.0 and errors is empty.
C10_ScenarioScaled ==
    Scenario =>
        /\ \A m \in Series : Len(results[m]) = 2
        /\ results.stw[1] = Num(80)
        /\ Val(results.me_fo_consumption[1]) \in 2052..2223
        /\ results.errors = <<>>

C10_Witness ==
    /\ Scenario
    /\ Val(results.me_fo_consumption[1]) = 2223
    /\ results.errors = <<>>

\* C11: calls are independent: after any sequence of calls the module-level
\* CONDITIONING_PARAMS and SAMPLE_SHIPS and the caller's own mapping are
\* unchanged, so the parameters and the vessel a call uses follow from that
\* call's arguments alone.
C11_CallsIndependent ==
    /\ CONDITIONING_PARAMS = DefaultParams
    /\ SAMPLE_SHIPS = Catalog
    /\ Called =>
          /\ cp_arg = cp_passed
          /\ \A k \in Keys :
                conditioning_params[k] =
                    IF cp_passed.given /\ k \in DOMAIN cp_passed.val
                    THEN cp_passed.val[k] ELSE DefaultParams[k]
          /\ \E k \in 1..Len(Catalog) : ship = Catalog[k]

C11_Witness ==
    /\ Returned
    /\ cp_passed.given
    /\ "wave_height" \in DOMAIN cp_passed.val
    /\ conditioning_params.wave_height = Num(150)
    /\ CONDITIONING_PARAMS.wave_height = Num(20)
    /\ cp_arg = cp_passed

\* the entries of the returned errors list with this code and index
ErrorEntries(code, idx) ==
    {e \in 1..Len(results.errors) :
        /\ results.errors[e].error_code = code
        /\ results.errors[e].indices = <<idx>>}

RpmReached(idx) ==
    /\ idx \in DOMAIN draws
    /\ HasBase(me_rpm_base, idx)
    /\ JitteredRpm(idx) >= ship.max_rpm

PowerReached(idx) ==
    /\ idx \in DOMAIN draws
    /\ HasBase(me_power_base, idx)
    /\ 10 * JitteredPower(idx) >= 9 * ship.mcr

\* C12: the returned errors list has exactly one entry for each (index, check)
\* whose jittered value reached its threshold and no other entry; each entry's
\* indices is [i]; entries are in ascending index order, RPM before power at
\* the same index; the later samples are still processed, and the output of
\* a sample that hit a limit is the clip value.
C12_ErrorsList ==
    Returned =>
        /\ \A e \in 1..Len(results.errors) :
              LET x == results.errors[e]
              IN /\ Len(x.indices) = 1
                 /\ \/ /\ x.error_code = "max_rpm_limit_exceeded"
                       /\ RpmReached(x.indices[1])
                    \/ /\ x.error_code = "max_mcr_limit_exceeded"
                       /\ PowerReached(x.indices[1])
        /\ \A idx \in 0..(Len(stw_range) - 1) :
              /\ Cardinality(ErrorEntries("max_rpm_limit_exceeded", idx)) =
                    IF RpmReached(idx) THEN 1 ELSE 0
              /\ Cardinality(ErrorEntries("max_mcr_limit_exceeded", idx)) =
                    IF PowerReached(idx) THEN 1 ELSE 0
              /\ RpmReached(idx) =>
                    results.me_rpm[idx + 1] =
                        Num(Round5(MulDiv(ship.max_rpm, 98, 100)))
              /\ PowerReached(idx) =>
                    results.me_power[idx + 1] =
                        Num(Round2(MulDiv(ship.mcr, 9, 10)))
        /\ \A e, f \in 1..Len(results.errors) :
              e < f =>
                 LET x == results.errors[e]
                     y == results.errors[f]
                 IN \/ x.indices[1] < y.indices[1]
                    \/ /\ x.indices[1] = y.indices[1]
                       /\ x.error_code = "max_rpm_limit_exceeded"
                       /\ y.error_code = "max_mcr_limit_exceeded"
        /\ \A m \in Series : Len(results[m]) = Len(stw_range)

\* both checks fire at index 6 after the RPM check fired at index 5
C12_Witness ==
    /\ Returned
    /\ Len(stw_range) = 7
    /\ Len(results.errors) = 3
    /\ results.errors[1].error_code = "max_rpm_limit_exceeded"
    /\ results.errors[1].indices = <<5>>
    /\ results.errors[2].error_code = "max_rpm_limit_exceeded"
    /\ results.errors[2].indices = <<6>>
    /\ results.errors[3].error_code = "max_mcr_limit_exceeded"
    /\ results.errors[3].indices = <<6>>
    /\ ~IsNone(results.me_fo_emission[7])

\* stw_range with every number moved by shift and every None kept
AltSpeeds(stw, shift) ==
    [k \in 1..Len(stw) |->
        IF IsNone(stw[k]) THEN None ELSE Num(Val(stw[k]) + shift)]

\* 0.5 knots and 30 knots, in tenths
SpeedShifts == {5, 300}

\* the call made again with other speed numbers: same None positions, same
\* environmental factors, vessel and jitter draws
SecondCall(alt) ==
    RunQuery(alt, [raises |-> FALSE, factors |-> env_effects], ship, draws)

\* C15: two calls whose stw_range have None at the same positions but
\* different speed numbers, run with the same parameters, vessel and jitter
\* draws, return identical sog, me_rpm, me_power, me_fo_consumption,
\* me_fo_emission and errors; only the stw echo differs.
C15_SpeedValueIgnored ==
    Returned =>
        \A shift \in SpeedShifts :
            \A alt \in {AltSpeeds(stw_range, shift)} :
            \A other \in {SecondCall(alt)} :
               /\ ~other.raised
               /\ \A m \in Derived : other.results[m] = results[m]
               /\ other.results.errors = results.errors
               /\ other.results.stw = alt
               /\ results.stw = stw_range

C15_Witness ==
    /\ Returned
    /\ Len(stw_range) = 7
    /\ IsNone(stw_range[1])
    /\ stw_range[6] = Num(130)
    /\ AltSpeeds(stw_range, 300)[6] = Num(430)
    /\ SecondCall(AltSpeeds(stw_range, 300)).results.sog = results.sog
    /\ ~IsNone(results.sog[6])
    /\ results.errors /= <<>>

EnvReturned == env_args /= <<>>

WindDifference ==
    Abs(Val(env_args.wind_direction) - Val(env_args.ship_heading))

CurrentDifference ==
    Abs(Val(env_args.current_direction) - Val(env_args.ship_heading))

\* C14 as stated: for every numeric wind_direction and ship_heading the
\* relative wind angle lies in [0, 180], so with non-negative wind_speed the
\* wind factor is never below 1.0; the same for the relative current angle and
\* sog_factor with non-negative current_speed.
C14_AngleFoldedEverywhere ==
    EnvReturned =>
        /\ Val(relative_wind_angle) \in 0..1800
        /\ Val(env_args.wind_speed) >= 0 => Val(env_wind_factor) >= FOne
        /\ Val(relative_current_angle) \in 0..1800
        /\ Val(env_args.current_speed) >= 0 => env_return.sog_factor >= FOne

\* C14, amended: when the direction and the heading differ by at most 360
\* degrees (as they do when both lie in [0, 360]), the relative angle lies
\* in [0, 180], so with non-negative wind_speed the wind factor is never
\* below 1.0; the same for the relative current angle and sog_factor with
\* non-negative current_speed.  A larger difference folds to a negative
\* angle, which takes the angle < 90 branch with a negative term.
C14_AngleFoldedWithinOneTurn ==
    EnvReturned =>
        /\ WindDifference <= 3600 =>
              /\ Val(relative_wind_angle) \in 0..1800
              /\ Val(env_args.wind_speed) >= 0 => Val(env_wind_factor) >= FOne
        /\ CurrentDifference <= 3600 =>
              /\ Val(relative_current_angle) \in 0..1800
              /\ Val(env_args.current_speed) >= 0 =>
                    env_return.sog_factor >= FOne
        /\ WindDifference > 3600 => Val(relative_wind_angle) < 0
        /\ CurrentDifference > 3600 => Val(relative_current_angle) < 0

\* wind from 225 degrees on heading 0 folds to 135 degrees, and a current
\* from 360 degrees folds to 0
C14_Witness ==
    /\ EnvReturned
    /\ env_args.wind_direction = Num(2250)
    /\ env_args.ship_heading = Num(0)
    /\ env_args.wind_speed = Num(20)
    /\ relative_wind_angle = Num(1350)
    /\ env_wind_factor = Num(FOne)
    /\ env_args.current_direction = Num(3600)
    /\ env_args.current_speed = Num(5)
    /\ relative_current_angle = Num(0)
    /\ env_return.sog_factor = FOne

\* C16: the five factors do not depend on wave_direction or
\* fuel_specific_energy: a parameter set that differs only in those two
\* fields yields the same five factors; sog_factor depends only on
\* current_speed, current_direction and ship_heading; fuel_factor equals
\* emission_factor.
C16_UnreadParameters ==
    EnvReturned =>
        /\ \A wv \in WaveDirections, fe \in FuelEnergies :
              CalculateEnvironmentalEffects(
                  [env_args EXCEPT !.wave_direction = wv,
                                   !.fuel_specific_energy = fe]) = env_return
        /\ CalculateEnvironmentalEffects(
               [k \in Keys |-> IF k \in DOMAIN OtherWeather
                               THEN OtherWeather[k]
                               ELSE env_args[k]]).sog_factor
              = env_return.sog_factor
        /\ env_return.fuel_factor = env_return.emission_factor

\* a call whose power_factor the other weather changes while its sog_factor,
\* raised by a following current, stays
C16_Witness ==
    /\ EnvReturned
    /\ env_args.wave_direction = Num(900)
    /\ env_args.fuel_specific_energy = Num(415)
    /\ env_return.sog_factor > FOne
    /\ CalculateEnvironmentalEffects(
           [k \in Keys |-> IF k \in DOMAIN OtherWeather
                           THEN OtherWeather[k]
                           ELSE env_args[k]]).power_factor
          /= env_return.power_factor
    /\ env_return.fuel_factor > env_return.power_factor

\* latest_figure and latest_metadata are both unset, or both set and taken
\* from the same graph result
PairConsistent ==
    \/ latest_figure = None /\ latest_metadata = None
    \/ /\ latest_figure /= None
       /\ latest_metadata /= None
       /\ latest_figure[1] = Val(latest_metadata)

\* a step that processes a chat turn: messages grows
TurnStep == Len(messages') > Len(messages)

\* a step that unsets a stored figure or metadata
PairReset ==
    \/ latest_figure /= None /\ latest_figure' = None
    \/ latest_metadata /= None /\ latest_metadata' = None

C17_Step ==
    /\ TurnStep =>
          /\ messages' = messages \o <<HumanMessage, messages'[Len(messages')]>>
          /\ messages'[Len(messages')].type = "ai"
          /\ turn_graph' = None =>
                /\ latest_figure' = latest_figure
                /\ latest_metadata' = latest_metadata
          /\ turn_graph' /= None =>
                /\ latest_figure' = <<Val(turn_graph'), "Figure">>
                /\ latest_metadata' = turn_graph'
    /\ ~TurnStep =>
          \/ messages' = messages /\ latest_figure' = latest_figure
                                  /\ latest_metadata' = latest_metadata
          \/ messages' = <<>> /\ latest_figure' = None
                              /\ latest_metadata' = None
    /\ PairReset => messages' = <<>> /\ latest_performances' = None

\* C17: after any sequence of chat turns and Clear Chat clicks latest_figure
\* and latest_metadata are both unset or both set from the same tool result;
\* a turn that yields no figure-with-metadata leaves the stored pair
\* unchanged; only Clear Chat resets the pair; every processed turn appends
\* exactly one human message followed by exactly one AI message.
C17_SessionPair == []PairConsistent /\ [][C17_Step]_vars

\* graph 1 is still on display after a later turn that raised and before
\* which graph 2 was never stored
C17_Witness ==
    /\ Len(messages) = 4
    /\ messages[2].content = "reply"
    /\ messages[4].content = "Error"
    /\ turn_graph = None
    /\ latest_figure = <<1, "Figure">>
    /\ latest_metadata = Num(1)
    /\ latest_performances /= None

====
